---- MODULE Spec2Model ----
(***************************************************************************)
(* audiocomplib: AudioCompressor and PeakLimiter as a state machine.       *)
(*                                                                         *)
(* One processor instance (a compressor or a limiter) is modelled with its *)
(* attributes as the state; every public method is one action.             *)
(*                                                                         *)
(* Arithmetic.  The code computes in float64.  The model computes in exact *)
(* rational arithmetic: a number is a pair <<n, d>> in lowest terms, d > 0.*)
(* Inputs are drawn from values on which every power and logarithm the     *)
(* code takes is itself rational (amplitudes and linear thresholds that    *)
(* are powers of a hundred, ratios 1 and 2), so that the transfer curve is *)
(* computed exactly.  Two functions of numpy have no rational value and    *)
(* are modelled by rational functions, stated where they are defined:      *)
(* Exp (np.exp) and Log10 (np.log10).  Floating-point rounding, overflow   *)
(* and underflow are outside the model.                                    *)
(***************************************************************************)
EXTENDS Integers, Sequences, FiniteSets, TLC

VARIABLES
    kind,              \* "compressor" (AudioCompressor) or "limiter" (PeakLimiter)
    threshold,         \* self.threshold, dB
    ratio,             \* self.ratio (AudioCompressor only)
    attack_time_ms,    \* self.attack_time_ms
    release_time_ms,   \* self.release_time_ms
    knee_width,        \* self.knee_width, dB (AudioCompressor only)
    gain_reduction,    \* self._gain_reduction: None, or Some(track) in linear scale
    last,              \* the last call made on the instance and what it returned
    processed          \* history: some process call has returned a block

vars == <<kind, threshold, ratio, attack_time_ms, release_time_ms, knee_width,
          gain_reduction, last, processed>>

params == <<threshold, ratio, attack_time_ms, release_time_ms, knee_width>>

-----------------------------------------------------------------------------
(* Rational numbers.                                                       *)

RECURSIVE GCD(_, _)
GCD(a, b) == IF b = 0 THEN a ELSE GCD(b, a % b)

IAbs(a) == IF a < 0 THEN -a ELSE a

\* n/d in lowest terms with a positive denominator (d # 0).
Q(n, d) ==
    LET g == GCD(IAbs(n), IAbs(d))
        s == IF d < 0 THEN -1 ELSE 1
    IN  <<s * (n \div g), s * (d \div g)>>

Zero == <<0, 1>>
One == <<1, 1>>

RAdd(x, y) == Q(x[1] * y[2] + y[1] * x[2], x[2] * y[2])
RNeg(x) == <<-x[1], x[2]>>
RSub(x, y) == RAdd(x, RNeg(y))
RMul(x, y) == Q(x[1] * y[1], x[2] * y[2])
RDiv(x, y) == Q(x[1] * y[2], x[2] * y[1])
RLess(x, y) == x[1] * y[2] < y[1] * x[2]
RLeq(x, y) == x[1] * y[2] <= y[1] * x[2]
RAbs(x) == <<IAbs(x[1]), x[2]>>
RMax(x, y) == IF RLess(x, y) THEN y ELSE x

\* Python's int(x): truncation towards zero.
Trunc(x) == IF x[1] >= 0 THEN x[1] \div x[2] ELSE -((-x[1]) \div x[2])

RECURSIVE IPow(_, _)
IPow(b, e) == IF e = 0 THEN 1 ELSE b * IPow(b, e - 1)

\* The integer r with r^q = n, for n >= 0 a perfect q-th power: bisection
\* between lo and hi, lo^q <= n < hi^q.
RECURSIVE IRootHi(_, _, _)
IRootHi(n, q, hi) == IF IPow(hi, q) > n THEN hi ELSE IRootHi(n, q, 2 * hi)

RECURSIVE IRootIn(_, _, _, _)
IRootIn(n, q, lo, hi) ==
    IF hi - lo <= 1 THEN lo
    ELSE LET mid == (lo + hi) \div 2
         IN  IF IPow(mid, q) <= n THEN IRootIn(n, q, mid, hi)
             ELSE IRootIn(n, q, lo, mid)

IRoot(n, q) ==
    IF q = 1 THEN n
    ELSE LET r == IRootIn(n, q, 0, IRootHi(n, q, 1))
         IN  CHOOSE v \in {r} : IPow(v, q) = n

\* x ** e for x >= 0 and a rational exponent e whose result is rational.
RPow(x, e) ==
    LET p == IAbs(e[1])
        q == e[2]
        b == IF e[1] < 0 THEN RDiv(One, x) ELSE x
    IN  <<IRoot(IPow(b[1], p), q), IRoot(IPow(b[2], p), q)>>

-----------------------------------------------------------------------------
(* numpy functions with no rational value.                                 *)

\* np.exp(x) for x <= 0, modelled by the rational function 1 / (1 - x): like
\* exp it is 1 at 0, strictly increasing, and strictly between 0 and 1 for
\* every x < 0.
Exp(x) == RDiv(One, RSub(One, x))

\* np.log10(x) for x > 0, rounded down to an integer: exact on the powers of
\* ten, which are the only amplitudes the model feeds it.
RECURSIVE Log10(_)
Log10(x) ==
    IF RLeq(<<10, 1>>, x) THEN Log10(RDiv(x, <<10, 1>>)) + 1
    ELSE IF RLess(x, One) THEN Log10(RMul(x, <<10, 1>>)) - 1
    ELSE 0

\* 20 * np.log10(x) as a number of dB.
ToDB(x) == <<20 * Log10(x), 1>>

-----------------------------------------------------------------------------
(* Signal blocks: numpy arrays.  A rank-2 block has shape <<channels,      *)
(* samples>> and data[c][i]; of an array of another rank only ndim is      *)
(* read before process raises.                                             *)

Array2(data, n) == [ndim |-> 2, shape |-> <<Len(data), n>>, data |-> data]
Array1(n) == [ndim |-> 1, shape |-> <<n>>, data |-> <<>>]

Channels(signal) == signal.shape[1]
Samples(signal) == signal.shape[2]

\* A one-dimensional array as a sequence, its elements computed once.
AsArray(f) == SubSeq(f, 1, Len(f))

None == <<>>
Some(v) == <<v>>

-----------------------------------------------------------------------------
(* The dynamics computation.                                               *)

\* 20 * log10(1e-10): the level a silent sample is floored to.
EpsilonDB == -200

\* threshold_linear = 10 ** (self.threshold / 20)
ThresholdLinear(thr) == RPow(<<10, 1>>, RDiv(thr, <<20, 1>>))

\* attack_coeff / release_coeff from a time in ms and the sample rate.
TimeSamples(time_ms, sample_rate) ==
    Trunc(RDiv(RMul(time_ms, <<sample_rate, 1>>), <<1000, 1>>))

Coeff(time_ms, sample_rate) ==
    LET time_samples == TimeSamples(time_ms, sample_rate)
    IN  IF time_samples > 0 THEN Exp(RDiv(<<-1, 1>>, <<time_samples, 1>>)) ELSE Zero

\* np.max(np.abs(signal), axis=0): one peak per sample index.
RECURSIVE MaxAbsFrom(_, _, _)
MaxAbsFrom(data, i, c) ==
    IF c = 1 THEN RAbs(data[1][i])
    ELSE RMax(MaxAbsFrom(data, i, c - 1), RAbs(data[c][i]))

MaxAmplitude(signal) ==
    AsArray([i \in 1..Samples(signal) |->
                MaxAbsFrom(signal.data, i, Channels(signal))])

\* 20 * np.log10(np.maximum(max_amplitude, 1e-10)), per sample.  Every number
\* of the model below 1e-10 is 0 (denominators stay below 10^10), so the floor
\* replaces exactly the silent samples.
AmplitudeDB(m) == IF m = Zero THEN <<EpsilonDB, 1>> ELSE ToDB(m)

\* AudioCompressor._compute_compression_factor, per sample.
ComputeCompressionFactor(thr, rat, knee, amplitude_dB) ==
    LET knee_start == RSub(thr, RDiv(knee, <<2, 1>>))
    IN  IF RLess(knee_start, amplitude_dB) /\ RLess(amplitude_dB, thr)
        THEN RAdd(One, RMul(RSub(rat, One),
                            RDiv(RSub(amplitude_dB, knee_start), knee)))
        ELSE IF RLeq(thr, amplitude_dB) THEN rat ELSE One

\* The exponent 1 / compression_factor turned upside down.
DesiredGainReductionExpanding(thr, rat, knee, m) ==
    LET amplitude_dB == AmplitudeDB(m)
        threshold_linear == ThresholdLinear(thr)
        compression_factor == ComputeCompressionFactor(thr, rat, knee, amplitude_dB)
    IN  IF RLess(thr, amplitude_dB)
        THEN RMul(threshold_linear,
                  RPow(RDiv(m, threshold_linear), compression_factor))
        ELSE m

\* The knee lowering the onset of compression: the level compared with
\* knee_start instead of the threshold.
DesiredGainReductionFromKneeStart(thr, rat, knee, m) ==
    LET amplitude_dB == AmplitudeDB(m)
        threshold_linear == ThresholdLinear(thr)
        knee_start == RSub(thr, RDiv(knee, <<2, 1>>))
    IN  IF RLess(knee_start, amplitude_dB)
        THEN RMul(threshold_linear,
                  RPow(RDiv(m, threshold_linear), RDiv(One, rat)))
        ELSE m

\* desired_gain_reduction, per sample.
DesiredGainReduction(thr, rat, knee, m) ==
    LET amplitude_dB == AmplitudeDB(m)
        threshold_linear == ThresholdLinear(thr)
        compression_factor == ComputeCompressionFactor(thr, rat, knee, amplitude_dB)
    IN  IF RLess(thr, amplitude_dB)
        THEN RMul(threshold_linear,
                  RPow(RDiv(m, threshold_linear), RDiv(One, compression_factor)))
        ELSE m

\* np.where(max_amplitude != 0, ..., 0.0): silence filled with 0 instead of 1.
CompressorTargetZeroFill(thr, rat, knee, m) ==
    IF m # Zero THEN RDiv(DesiredGainReduction(thr, rat, knee, m), m) ELSE Zero

\* The desired level divided by the linear threshold instead of the peak.
CompressorTargetOverThreshold(thr, rat, knee, m) ==
    IF m # Zero
    THEN RDiv(DesiredGainReduction(thr, rat, knee, m), ThresholdLinear(thr))
    ELSE One

\* target_gain_reduction of the compressor, per sample.
CompressorTarget(thr, rat, knee, m) ==
    IF m # Zero THEN RDiv(DesiredGainReduction(thr, rat, knee, m), m) ELSE One

\* gain_reduction of the limiter before smoothing, per sample.
LimiterTarget(thr, m) ==
    LET threshold_linear == ThresholdLinear(thr)
    IN  IF RLess(threshold_linear, m) THEN RDiv(threshold_linear, m) ELSE One

\* One step of the smoothing loop: smoothed[i] from smoothed[i - 1] and the
\* target of sample i.
SmoothStep(prev, g, attack_coeff, release_coeff) ==
    IF RLess(g, prev)
    THEN RAdd(RMul(attack_coeff, prev), RMul(RSub(One, attack_coeff), g))
    ELSE RAdd(RMul(release_coeff, prev), RMul(RSub(One, release_coeff), g))

\* The value the smoothed track starts from: smoothed[0] = gain_reduction[0].
SmoothFirst(g) == g[1]

RECURSIVE SmoothUpTo(_, _, _, _)
SmoothUpTo(g, attack_coeff, release_coeff, i) ==
    IF i = 1 THEN <<SmoothFirst(g)>>
    ELSE LET s == SmoothUpTo(g, attack_coeff, release_coeff, i - 1)
         IN  Append(s, SmoothStep(s[i - 1], g[i], attack_coeff, release_coeff))

\* smooth_gain_reduction on a track of at least one sample.
SmoothGainReduction(g, attack_coeff, release_coeff) ==
    SmoothUpTo(g, attack_coeff, release_coeff, Len(g))

\* smoothed_gain_reduction[0] = gain_reduction[0] on an empty track: IndexError.
SmoothRaises(g) == Len(g) = 0

\* _calculate_gain_reduction up to the smoothing: the target track.
TargetGainReduction(k, thr, rat, knee, signal) ==
    LET max_amplitude == MaxAmplitude(signal)
    IN  AsArray([i \in 1..Samples(signal) |->
                    IF k = "compressor"
                    THEN CompressorTarget(thr, rat, knee, max_amplitude[i])
                    ELSE LimiterTarget(thr, max_amplitude[i])])

\* The gain applied to the first channel only.
ApplyGainFirstChannel(signal, track) ==
    [c \in 1..Channels(signal) |->
        [i \in 1..Samples(signal) |->
            IF c = 1 THEN RMul(signal.data[c][i], track[i]) ELSE signal.data[c][i]]]

\* input_signal * gain_reduction: the track is broadcast over the channels.
ApplyGain(signal, track) ==
    [c \in 1..Channels(signal) |->
        [i \in 1..Samples(signal) |-> RMul(signal.data[c][i], track[i])]]

\* What process raises, or "ok": the checks of _calculate_gain_reduction in
\* the order the code makes them.  The limiter has no sample-rate check.
ProcessStatus(k, signal, sample_rate) ==
    IF signal.ndim # 2 THEN "ValueError"
    ELSE IF k = "compressor" /\ sample_rate <= 0 THEN "ValueError"
    ELSE IF Channels(signal) = 0 THEN "ValueError"
    ELSE IF SmoothRaises(MaxAmplitude(signal)) THEN "IndexError"
    ELSE "ok"

\* if not self._gain_reduction: the truth value of the array instead of the
\* None check.  numpy raises ValueError for an array of more than one value,
\* and a one-value array is false when its value is 0.
GetRaisesTruthValue(stored) ==
    \/ stored = None
    \/ Len(stored[1]) > 1
    \/ Len(stored[1]) = 1 /\ stored[1][1] = Zero

\* if self._gain_reduction is None: raise ValueError
GetRaises(stored) == stored = None

\* 20 * np.log10(self._gain_reduction)
GainReductionDBFS(track) == [i \in 1..Len(track) |-> ToDB(track[i])]

-----------------------------------------------------------------------------
(* Bounds and input sets.                                                  *)

\* The most samples a block holds over all its channels.
MaxSize == 2

Amplitudes == {Zero, One, <<-100, 1>>}
Thresholds == {<<-40, 1>>, <<40, 1>>}
Ratios == {One, <<2, 1>>}
AttackTimesMs == {<<1, 2>>, <<3, 2>>}
ReleaseTimesMs == {Zero, <<3, 2>>}
KneeWidths == {Zero, <<160, 1>>}
MakeupGains == {Zero, <<20, 1>>}
SampleRates == {0, 1000}

Shapes == {sh \in (1..MaxSize) \X (0..MaxSize) : sh[1] * sh[2] <= MaxSize}

Blocks ==
    UNION {{Array2(d, sh[2]) : d \in [1..sh[1] -> [1..sh[2] -> Amplitudes]]} :
           sh \in Shapes}

\* A rank-1 array, and a rank-2 array with no channel.
Malformed == {Array1(1), [ndim |-> 2, shape |-> <<0, 1>>, data |-> <<>>]}

Signals == Blocks \cup Malformed

NoSignal == Array1(0)

\* The record of a call: its arguments, whether it raised, what it returned,
\* and for process the locals attack_coeff, release_coeff and
\* target_gain_reduction of _calculate_gain_reduction.
Call(op, status) ==
    [op |-> op, status |-> status, signal |-> NoSignal, sample_rate |-> 0,
     arg |-> Zero, attack_coeff |-> Zero, release_coeff |-> Zero,
     target |-> <<>>, output |-> <<>>, reported |-> <<>>]

-----------------------------------------------------------------------------
(* The state machine.                                                      *)

\* __init__: any parameter values, no gain reduction stored.
Init ==
    /\ kind \in {"compressor", "limiter"}
    /\ threshold \in Thresholds
    /\ attack_time_ms \in AttackTimesMs
    /\ release_time_ms \in ReleaseTimesMs
    /\ IF kind = "compressor"
       THEN ratio \in Ratios /\ knee_width \in KneeWidths
       ELSE ratio = None /\ knee_width = None
    /\ gain_reduction = None
    /\ last = Call("init", "ok")
    /\ processed = FALSE

SetThreshold(v) ==
    /\ threshold' = v
    /\ last' = [Call("set_threshold", "ok") EXCEPT !.arg = v]
    /\ UNCHANGED <<kind, ratio, attack_time_ms, release_time_ms, knee_width,
                   gain_reduction, processed>>

SetRatio(v) ==
    /\ kind = "compressor"
    /\ ratio' = v
    /\ last' = [Call("set_ratio", "ok") EXCEPT !.arg = v]
    /\ UNCHANGED <<kind, threshold, attack_time_ms, release_time_ms, knee_width,
                   gain_reduction, processed>>

SetAttackTime(v) ==
    /\ attack_time_ms' = v
    /\ last' = [Call("set_attack_time", "ok") EXCEPT !.arg = v]
    /\ UNCHANGED <<kind, threshold, ratio, release_time_ms, knee_width,
                   gain_reduction, processed>>

SetReleaseTime(v) ==
    /\ release_time_ms' = v
    /\ last' = [Call("set_release_time", "ok") EXCEPT !.arg = v]
    /\ UNCHANGED <<kind, threshold, ratio, attack_time_ms, knee_width,
                   gain_reduction, processed>>

\* self.ratio = knee_width: the value stored in the wrong attribute.
SetKneeWidthIntoRatio(v) ==
    /\ kind = "compressor"
    /\ ratio' = v
    /\ last' = [Call("set_knee_width", "ok") EXCEPT !.arg = v]
    /\ UNCHANGED <<kind, threshold, attack_time_ms, release_time_ms, knee_width,
                   gain_reduction, processed>>

SetKneeWidth(v) ==
    /\ kind = "compressor"
    /\ knee_width' = v
    /\ last' = [Call("set_knee_width", "ok") EXCEPT !.arg = v]
    /\ UNCHANGED <<kind, threshold, ratio, attack_time_ms, release_time_ms,
                   gain_reduction, processed>>

\* AudioCompressor defines no set_makeup_gain and no makeup_gain attribute:
\* the call made by examples/realtime_processing_pedalboard.py raises.
SetMakeupGain(v) ==
    /\ kind = "compressor"
    /\ last' = [Call("set_makeup_gain", "AttributeError") EXCEPT !.arg = v]
    /\ UNCHANGED <<kind, threshold, ratio, attack_time_ms, release_time_ms,
                   knee_width, gain_reduction, processed>>

\* What the record of a call that raised keeps of its block: the rank and the
\* shape, not the samples.
Header(signal) == [signal EXCEPT !.data = <<>>]

\* process(input_signal, sample_rate)
Process(signal, sample_rate) ==
    LET status == ProcessStatus(kind, signal, sample_rate)
        attack_coeff == Coeff(attack_time_ms, sample_rate)
        release_coeff == Coeff(release_time_ms, sample_rate)
        target == TargetGainReduction(kind, threshold, ratio, knee_width, signal)
        track == SmoothGainReduction(target, attack_coeff, release_coeff)
    IN  /\ IF status = "ok"
           THEN /\ gain_reduction' = Some(track)
                /\ processed' = TRUE
                /\ last' = [Call("process", status) EXCEPT
                               !.signal = signal, !.sample_rate = sample_rate,
                               !.attack_coeff = attack_coeff,
                               !.release_coeff = release_coeff,
                               !.target = target,
                               !.output = ApplyGain(signal, track)]
           ELSE /\ gain_reduction' = gain_reduction
                /\ processed' = processed
                /\ last' = [Call("process", status) EXCEPT
                               !.signal = Header(signal),
                               !.sample_rate = sample_rate]
        /\ UNCHANGED <<kind, threshold, ratio, attack_time_ms, release_time_ms,
                       knee_width>>

\* get_gain_reduction()
GetGainReduction ==
    /\ IF GetRaises(gain_reduction)
       THEN last' = Call("get_gain_reduction", "ValueError")
       ELSE last' = [Call("get_gain_reduction", "ok") EXCEPT
                        !.reported = GainReductionDBFS(gain_reduction[1])]
    /\ UNCHANGED <<kind, threshold, ratio, attack_time_ms, release_time_ms,
                   knee_width, gain_reduction, processed>>

Next ==
    \/ \E v \in Thresholds : SetThreshold(v)
    \/ \E v \in Ratios : SetRatio(v)
    \/ \E v \in AttackTimesMs : SetAttackTime(v)
    \/ \E v \in ReleaseTimesMs : SetReleaseTime(v)
    \/ \E v \in KneeWidths : SetKneeWidth(v)
    \/ \E v \in MakeupGains : SetMakeupGain(v)
    \/ \E signal \in Signals, sample_rate \in SampleRates :
          Process(signal, sample_rate)
    \/ GetGainReduction

Spec == Init /\ [][Next]_vars

-----------------------------------------------------------------------------
(* Helpers of the properties.                                              *)

ReturnedBlock == last.op = "process" /\ last.status = "ok"

\* Two blocks of the same channel count, one after the other.
Concat(a, b) ==
    Array2([c \in 1..Channels(a) |-> a.data[c] \o b.data[c]],
           Samples(a) + Samples(b))

\* The smoothed track of one process call on `signal` with the stored
\* parameters.
TrackOf(signal, sample_rate) ==
    SmoothGainReduction(
        TargetGainReduction(kind, threshold, ratio, knee_width, signal),
        Coeff(attack_time_ms, sample_rate), Coeff(release_time_ms, sample_rate))

-----------------------------------------------------------------------------
(* C1  Streaming equivalence.  When two process calls follow each other on *)
(* one instance at the same sample rate, the track of the first followed   *)
(* by the track of the second is the track of one process call on the two  *)
(* blocks joined: the second block's envelope starts from the last         *)
(* smoothed value of the first block.                                      *)
StreamingEquivalence ==
    [][(/\ ReturnedBlock
        /\ ReturnedBlock'
        /\ last'.sample_rate = last.sample_rate
        /\ Channels(last'.signal) = Channels(last.signal))
       => gain_reduction[1] \o gain_reduction'[1]
              = TrackOf(Concat(last.signal, last'.signal), last.sample_rate)]_vars

(* C2  Processor lifecycle.  get_gain_reduction raises exactly as long as  *)
(* no process call has returned: set_* calls and rejected process calls    *)
(* leave a fresh instance uninitialized, and once a process call has       *)
(* returned no later call makes get_gain_reduction raise again.            *)
Lifecycle ==
    /\ processed <=> gain_reduction # None
    /\ last.op = "get_gain_reduction" =>
          (last.status = "ok" <=> processed)

\* get_gain_reduction has returned a track.
LifecycleWitness ==
    /\ processed
    /\ last.op = "get_gain_reduction"
    /\ last.status = "ok"

(* C3  Input validation.  process returns no block when the signal is not  *)
(* rank-2 or the sample rate is not greater than 0: every block returned   *)
(* comes from a rank-2 signal and a positive sample rate, for the          *)
(* compressor and for the limiter.                                         *)
InputValidation ==
    ReturnedBlock => last.signal.ndim = 2 /\ last.sample_rate > 0

-----------------------------------------------------------------------------
AllZero(signal) ==
    \A c \in 1..Channels(signal), i \in 1..Samples(signal) :
        signal.data[c][i] = Zero

AllOne(track) == \A i \in 1..Len(track) : track[i] = One

SameShape(output, signal) ==
    /\ Len(output) = Channels(signal)
    /\ \A c \in 1..Channels(signal) : Len(output[c]) = Samples(signal)

(* C4  Silence invariance.  A process call on an all-zero block returns an *)
(* all-zero block of the same shape, and the gain-reduction track of that  *)
(* call is 1 at every sample; an all-zero block of at least one sample is  *)
(* accepted at every positive sample rate, whatever the parameters.        *)
SilenceInvariance ==
    /\ (ReturnedBlock /\ AllZero(last.signal)) =>
          /\ SameShape(last.output, last.signal)
          /\ \A c \in 1..Channels(last.signal), i \in 1..Samples(last.signal) :
                 last.output[c][i] = Zero
          /\ Len(gain_reduction[1]) = Samples(last.signal)
          /\ AllOne(last.target)
          /\ AllOne(gain_reduction[1])
    /\ \A signal \in Blocks, sample_rate \in SampleRates :
          (AllZero(signal) /\ Samples(signal) >= 1 /\ sample_rate > 0) =>
              ProcessStatus(kind, signal, sample_rate) = "ok"

\* A compressor has returned a silent block of two samples.
SilenceWitness ==
    /\ ReturnedBlock
    /\ kind = "compressor"
    /\ AllZero(last.signal)
    /\ Samples(last.signal) = 2

(* C5  Ratio boundary.  With ratio = 1 the compressor's target and         *)
(* smoothed gain reduction are 1 at every sample and process returns the   *)
(* input block, for every threshold, knee width, attack and release time.  *)
RatioBoundary ==
    (ReturnedBlock /\ kind = "compressor" /\ ratio = One) =>
        /\ AllOne(last.target)
        /\ AllOne(gain_reduction[1])
        /\ \A c \in 1..Channels(last.signal), i \in 1..Samples(last.signal) :
               last.output[c][i] = last.signal.data[c][i]
        /\ SameShape(last.output, last.signal)

\* With ratio 1, a block with a sample 80 dB above the threshold was returned.
RatioBoundaryWitness ==
    /\ ReturnedBlock
    /\ kind = "compressor"
    /\ ratio = One
    /\ threshold = <<-40, 1>>
    /\ \E i \in 1..Samples(last.signal) : last.signal.data[1][i] = <<-100, 1>>

(* C6  Makeup gain.  The compressor has a makeup-gain parameter that       *)
(* set_makeup_gain sets: the call succeeds.                                *)
MakeupGainSettable ==
    last.op = "set_makeup_gain" => last.status = "ok"

-----------------------------------------------------------------------------
(* C7  Gain application.  The block process returns has the shape of its   *)
(* input and is the input multiplied, in every channel, by the smoothed    *)
(* track of that call, which has one value per sample; that track stays    *)
(* stored until the next process call returns, and get_gain_reduction      *)
(* reports it in dB.                                                       *)
GainApplication ==
    /\ [](ReturnedBlock =>
            /\ SameShape(last.output, last.signal)
            /\ Len(gain_reduction[1]) = Samples(last.signal)
            /\ \A c \in 1..Channels(last.signal), i \in 1..Samples(last.signal) :
                   last.output[c][i]
                       = RMul(last.signal.data[c][i], gain_reduction[1][i]))
    /\ []((last.op = "get_gain_reduction" /\ last.status = "ok") =>
            /\ Len(last.reported) = Len(gain_reduction[1])
            /\ \A i \in 1..Len(last.reported) :
                   last.reported[i] = ToDB(gain_reduction[1][i]))
    /\ [][~ReturnedBlock' => gain_reduction' = gain_reduction]_vars

\* A two-channel block whose channels differ was returned attenuated.
GainApplicationWitness ==
    /\ ReturnedBlock
    /\ Channels(last.signal) = 2
    /\ last.signal.data[1] # last.signal.data[2]
    /\ last.output[2] # last.signal.data[2]
    /\ gain_reduction[1][1] # One

SetterFrame ==
    [][/\ last'.op = "set_threshold" =>
             /\ threshold' = last'.arg
             /\ UNCHANGED <<kind, ratio, attack_time_ms, release_time_ms,
                            knee_width, gain_reduction>>
       /\ last'.op = "set_ratio" =>
             /\ ratio' = last'.arg
             /\ UNCHANGED <<kind, threshold, attack_time_ms, release_time_ms,
                            knee_width, gain_reduction>>
       /\ last'.op = "set_attack_time" =>
             /\ attack_time_ms' = last'.arg
             /\ UNCHANGED <<kind, threshold, ratio, release_time_ms,
                            knee_width, gain_reduction>>
       /\ last'.op = "set_release_time" =>
             /\ release_time_ms' = last'.arg
             /\ UNCHANGED <<kind, threshold, ratio, attack_time_ms,
                            knee_width, gain_reduction>>
       /\ last'.op = "set_knee_width" =>
             /\ knee_width' = last'.arg
             /\ UNCHANGED <<kind, threshold, ratio, attack_time_ms,
                            release_time_ms, gain_reduction>>
       /\ last'.op = "process" => UNCHANGED <<kind, params>>
       /\ ReturnedBlock' =>
             gain_reduction' = Some(TrackOf(last'.signal, last'.sample_rate))
      ]_vars

\* set_ratio has stored a new ratio on an instance that holds a track.
SetterFrameWitness ==
    /\ last.op = "set_ratio"
    /\ ratio = last.arg
    /\ processed

\* The coefficient the rule of C10 gives: from the untruncated time in samples.
ClaimedCoeff(time_ms, sample_rate) ==
    LET time_samples == RDiv(RMul(time_ms, <<sample_rate, 1>>), <<1000, 1>>)
    IN  IF RLess(Zero, time_samples)
        THEN Exp(RDiv(<<-1, 1>>, time_samples))
        ELSE Zero

(* C10  Smoothing coefficient rule.  The attack and the release            *)
(* coefficient of a process call are 0 only when time_ms * sample_rate /   *)
(* 1000 is not greater than 0; otherwise they are exp(-1 / (time_ms *      *)
(* sample_rate / 1000)), from the untruncated time in samples, strictly    *)
(* between 0 and 1.                                                        *)
CoefficientRule ==
    ReturnedBlock =>
        /\ last.attack_coeff = ClaimedCoeff(attack_time_ms, last.sample_rate)
        /\ last.release_coeff = ClaimedCoeff(release_time_ms, last.sample_rate)
        /\ \A t \in {attack_time_ms, release_time_ms} :
              RLess(Zero, RMul(t, <<last.sample_rate, 1>>)) =>
                  /\ RLess(Zero, Coeff(t, last.sample_rate))
                  /\ RLess(Coeff(t, last.sample_rate), One)

(* C11  Empty block.  process applied to a rank-2 block with at least one  *)
(* channel and zero samples raises no error and returns an empty block of  *)
(* the same shape, its peak track and its gain-reduction track empty.      *)
EmptyBlock ==
    (/\ last.op = "process"
     /\ last.signal.ndim = 2
     /\ Channels(last.signal) >= 1
     /\ Samples(last.signal) = 0
     /\ last.sample_rate > 0) =>
        /\ last.status = "ok"
        /\ SameShape(last.output, last.signal)
        /\ MaxAmplitude(last.signal) = <<>>
        /\ gain_reduction = Some(<<>>)

\* The hard-knee gain of a level m > 0: 1 at or below the threshold,
\* (m / threshold_linear) ^ (1 / ratio - 1) above it.
HardKneeGain(thr, rat, m) ==
    IF RLess(thr, AmplitudeDB(m))
    THEN RPow(RDiv(m, ThresholdLinear(thr)), RSub(RDiv(One, rat), One))
    ELSE One

(* C12  Knee width has no effect in AudioCompressor.  The target track and *)
(* the output of a process call are the ones every other knee width,       *)
(* knee width 0 included, would have given: the target of a non-silent     *)
(* sample is the hard-knee gain of its level, also for levels in           *)
(* (threshold - knee_width / 2, threshold].                                *)
KneeWidthNoEffect ==
    (ReturnedBlock /\ kind = "compressor") =>
        /\ \A k \in KneeWidths :
              LET target == TargetGainReduction(kind, threshold, ratio, k,
                                                last.signal)
                  track == SmoothGainReduction(target, last.attack_coeff,
                                               last.release_coeff)
              IN  /\ target = last.target
                  /\ ApplyGain(last.signal, track) = last.output
        /\ \A i \in 1..Samples(last.signal) :
              LET m == MaxAmplitude(last.signal)[i]
              IN  m # Zero => last.target[i] = HardKneeGain(threshold, ratio, m)

\* A compressor of ratio 2 and knee width 160 dB returned a block with a
\* sample inside the knee, where the compression factor is neither 1 nor the
\* ratio, and the target of that sample is 1.
KneeWidthNoEffectWitness ==
    /\ ReturnedBlock
    /\ kind = "compressor"
    /\ knee_width = <<160, 1>>
    /\ ratio = <<2, 1>>
    /\ \E i \in 1..Samples(last.signal) :
          LET amplitude_dB == AmplitudeDB(MaxAmplitude(last.signal)[i])
              factor == ComputeCompressionFactor(threshold, ratio, knee_width,
                                                 amplitude_dB)
          IN  /\ RLess(RSub(threshold, RDiv(knee_width, <<2, 1>>)), amplitude_dB)
              /\ RLess(amplitude_dB, threshold)
              /\ factor # One
              /\ factor # ratio
              /\ last.target[i] = One

====
